---- MODULE Spec2Model ----
(***************************************************************************)
(* Model of the Shop Platform Python SDK (sdk/python/shop/client.py).      *)
(*                                                                         *)
(* Four state machines share this module:                                  *)
(*   Spec        the request executor: ShopClient._request, including the  *)
(*               retry loop that the mounted HTTPAdapter(Retry(...)) runs  *)
(*               inside session.request, and the error classifier;         *)
(*   SpecCodec   Product.from_dict / Order.from_dict on a raw mapping;     *)
(*   SpecRouter  the request assembly of the resource routers;             *)
(*   SpecVerify  WebhooksAPI.verify_signature.                             *)
(*                                                                         *)
(* Times are in milliseconds.                                              *)
(***************************************************************************)
EXTENDS Integers, Sequences, FiniteSets, TLC

\* ------------------------------------------------------------------------
\* Bounds of the model
\* ------------------------------------------------------------------------

\* max_retries ranges over 0..MaxRetriesBound (the constructor's default is 3)
MaxRetriesBound == 3

\* ------------------------------------------------------------------------
\* Request executor: configuration (ShopClient.__init__)
\* ------------------------------------------------------------------------

\* HTTP methods the routers pass to _request
Methods == {"GET", "POST", "PUT", "PATCH", "DELETE"}

\* Retry(status_forcelist=[429, 500, 502, 503, 504])
status_forcelist == {429, 500, 502, 503, 504}

\* Retry(backoff_factor=0.5), in milliseconds
backoff_factor == 500

\* Retry.DEFAULT_BACKOFF_MAX (120 s): Retry(...) is built without backoff_max
BACKOFF_MAX == 120000

\* Retry.DEFAULT_ALLOWED_METHODS: Retry(...) is built without allowed_methods
allowed_methods == {"HEAD", "GET", "PUT", "DELETE", "OPTIONS", "TRACE"}

\* Retry.RETRY_AFTER_STATUS_CODES; respect_retry_after_header defaults to True
RETRY_AFTER_STATUS_CODES == {413, 429, 503}

\* Retry(raise_on_status=...) is not passed: the library default is True
raise_on_status == TRUE

\* ------------------------------------------------------------------------
\* What the network can do on one attempt
\* ------------------------------------------------------------------------

\* Statuses the server answers with
Statuses == {200, 204, 400, 401, 403, 404, 409, 413, 429, 500, 501, 502, 503, 504}

\* The Retry-After header of a response: absent, "0", or 7 seconds
NoHeader == -1
RetryAfters == {NoHeader, 0, 7000}

\* Transport failures: a connect failure (urllib3 ConnectTimeoutError) and a
\* failure after the request was sent (ReadTimeoutError)
TransportErrors == {"connect", "read"}

Absent == "<absent>"

\* Response bodies.  json is the kind of value response.json() yields
\* ("object", "array", "null") or "invalid" when the text is not JSON; env
\* holds the envelope fields of an object body (Absent when the key is
\* missing); text is response.text.
Envelopes ==
  { [code |-> c, message |-> m, details |-> d] :
      c \in {Absent, "invalid_sku"},
      m \in {Absent, "SKU already exists"},
      d \in {Absent, "sku=A1"} }

NoEnv == [code |-> Absent, message |-> Absent, details |-> Absent]

Bodies ==
  { [json |-> "object", env |-> e, text |-> "<object text>"] : e \in Envelopes }
    \cup
  { [json |-> "array",   env |-> NoEnv, text |-> "[]"],
    [json |-> "null",    env |-> NoEnv, text |-> "null"],
    [json |-> "invalid", env |-> NoEnv, text |-> "<html>Bad Gateway</html>"],
    [json |-> "invalid", env |-> NoEnv, text |-> ""] }

NoBody == [json |-> "invalid", env |-> NoEnv, text |-> ""]

Responses ==
  { [status |-> s, retry_after |-> ra, body |-> b] :
      s \in Statuses, ra \in RetryAfters, b \in Bodies }

NoResponse == [status |-> 0, retry_after |-> NoHeader, body |-> NoBody]

\* ------------------------------------------------------------------------
\* State
\* ------------------------------------------------------------------------

VARIABLES
  \* --- request executor ---
  max_retries,   \* Retry(total=max_retries) of the mounted adapter
  pc,            \* "idle" | "sending" | "responded" | "done"
  method,        \* method of the call in progress
  total,         \* Retry.total of the call's current Retry object
  history_len,   \* len(Retry.history)
  attempts,      \* requests put on the wire by this call
  delays,        \* sleeps between attempts, in order: [delay, by_header]
  response,      \* the last response received when session.request ended
  outcome,       \* what _request returned or raised
  first,         \* first event of the call: [kind, status, retry_after]
  all_forced,    \* every attempt so far was answered with a forcelist status
  all_failed,    \* every attempt so far failed in the transport
  \* --- entity codec ---
  via,           \* the operation that called from_dict last
  received,      \* the raw mappings handed to from_dict, as they were received
  data,          \* the same mappings as from_dict left them
  result,        \* what the operation returned or raised: [kind, entities]
  previous,      \* what the decode before it gave for the same mappings
  \* --- resource routers ---
  op,            \* the router operation called last
  args,          \* its optional arguments: name -> value (PyNone when not given)
  request,       \* what it passed to _request: [method, path, params, json]
  \* --- signature verifier ---
  payload,       \* arguments of the last verify_signature call,
  signature,     \*   strings as sequences of code points
  secret,
  verified       \* "True", "False", or the exception raised

execVars == <<max_retries, pc, method, total, history_len, attempts, delays,
              response, outcome, first, all_forced, all_failed>>

codecVars == <<via, received, data, result, previous>>

routerVars == <<op, args, request>>

verifyVars == <<payload, signature, secret, verified>>


\* ------------------------------------------------------------------------
\* urllib3 Retry, as configured at ShopClient.__init__
\* ------------------------------------------------------------------------

RECURSIVE Pow2(_)
Pow2(n) == IF n <= 0 THEN 1 ELSE 2 * Pow2(n - 1)

Min(a, b) == IF a <= b THEN a ELSE b

is_method_retryable_none(m) == FALSE

\* Retry._is_method_retryable
is_method_retryable(m) == m \in allowed_methods

is_retry_any_error(m, status, has_retry_after, t) ==
  is_method_retryable(m) /\ status >= 400

\* Retry.is_retry(method, status_code, has_retry_after) with `t` = self.total
is_retry(m, status, has_retry_after, t) ==
  /\ is_method_retryable(m)
  /\ \/ status \in status_forcelist
     \/ (t # 0 /\ has_retry_after /\ status \in RETRY_AFTER_STATUS_CODES)

is_exhausted_early(t) == t <= 0

\* Retry.is_exhausted with only `total` set: zero counts are filtered out
is_exhausted(t) == t < 0

get_backoff_time_from_first(h) ==
  Min(BACKOFF_MAX, backoff_factor * Pow2(h - 1))

\* Retry.get_backoff_time with `h` = the number of consecutive errors in
\* history (requests passes redirect=False, so history holds only errors)
get_backoff_time(h) ==
  IF h <= 1 THEN 0 ELSE Min(BACKOFF_MAX, backoff_factor * Pow2(h - 1))

\* Retry.sleep_for_retry(response): true when a non-zero Retry-After was slept
sleep_for_retry(resp) == resp # NoResponse /\ resp.retry_after > 0

\* Retry.sleep(response): a non-zero Retry-After wins over the backoff
sleep(resp, h) ==
  IF sleep_for_retry(resp)
    THEN resp.retry_after
    ELSE get_backoff_time(h)

\* ------------------------------------------------------------------------
\* Outcomes of _request
\* ------------------------------------------------------------------------

None == "<None>"

NoOutcome == [kind |-> "none", code |-> None, message |-> <<>>, details |-> None]

Raised(kind) == [kind |-> kind, code |-> None, message |-> <<>>, details |-> None]

\* ShopAPIError(code, message, details)
ShopAPIError(code, message, details) ==
  [kind |-> "ShopAPIError", code |-> code, message |-> message, details |-> details]

\* dict.get(key, default) on the parsed envelope
Get(env, key, default) == IF env[key] = Absent THEN default ELSE env[key]

\* The error classifier: the `if response.status_code >= 400` block
Classify4xx(resp) ==
  IF resp.body.json = "invalid"
    THEN \* response.json() raised ValueError
         ShopAPIError("http_error",
                      <<"HTTP ", ToString(resp.status), ": ", resp.body.text>>,
                      None)
  ELSE IF resp.body.json = "object"
    THEN ShopAPIError(Get(resp.body.env, "code", "unknown"),
                      <<Get(resp.body.env, "message", resp.body.text)>>,
                      Get(resp.body.env, "details", None))
    ELSE \* a list, string, number or null has no .get
         Raised("AttributeError")

\* The tail of _request: 204 gives {}, any other status response.json()
ReturnBody(resp) ==
  IF resp.status = 204 THEN [NoOutcome EXCEPT !.kind = "ok", !.code = "{}"]
  ELSE IF resp.body.json = "invalid" THEN Raised("JSONDecodeError")
  ELSE [NoOutcome EXCEPT !.kind = "ok", !.code = resp.body.json]

\* HTTPAdapter.send: the requests exception a urllib3 MaxRetryError becomes,
\* by the reason (the last failure) it carries
MaxRetryErrorAs(err) ==
  IF err = "connect" THEN Raised("ConnectTimeout")
  ELSE IF err = "read" THEN Raised("ConnectionError")
  ELSE Raised("RetryError")

TransportKinds == {"ConnectTimeout", "ConnectionError", "ReadTimeout"}

\* ------------------------------------------------------------------------
\* Request executor: actions
\* ------------------------------------------------------------------------

NoFirst == [kind |-> "none", status |-> 0, retry_after |-> NoHeader]

ExecInit ==
  /\ max_retries \in 0..MaxRetriesBound
  /\ pc = "idle"
  /\ method = "GET"
  /\ total = max_retries
  /\ history_len = 0
  /\ attempts = 0
  /\ delays = <<>>
  /\ response = NoResponse
  /\ outcome = NoOutcome
  /\ first = NoFirst
  /\ all_forced = TRUE
  /\ all_failed = TRUE

\* A router calls _request(method, ...): session.request starts with the
\* adapter's Retry object (total = max_retries, empty history)
Request(m) ==
  /\ pc \in {"idle", "done"}
  /\ pc' = "sending"
  /\ method' = m
  /\ total' = max_retries
  /\ history_len' = 0
  /\ attempts' = 0
  /\ delays' = <<>>
  /\ response' = NoResponse
  /\ outcome' = NoOutcome
  /\ first' = NoFirst
  /\ all_forced' = TRUE
  /\ all_failed' = TRUE
  /\ UNCHANGED max_retries

\* One attempt that fails in the transport: urlopen's except branch calls
\* retries.increment(error=e) and then retries.sleep()
SendError(err) ==
  /\ pc = "sending"
  /\ attempts' = attempts + 1
  /\ first' = IF first = NoFirst
                THEN [kind |-> "error", status |-> 0, retry_after |-> NoHeader]
                ELSE first
  /\ all_forced' = FALSE
  /\ UNCHANGED <<max_retries, method, response, all_failed>>
  /\ IF err = "read" /\ ~is_method_retryable(method)
       THEN \* increment re-raises the error itself
            /\ pc' = "done"
            /\ outcome' = Raised("ReadTimeout")
            /\ UNCHANGED <<total, history_len, delays>>
       ELSE /\ total' = total - 1
            /\ history_len' = history_len + 1
            /\ IF is_exhausted(total - 1)
                 THEN /\ pc' = "done"
                      /\ outcome' = MaxRetryErrorAs(err)
                      /\ UNCHANGED delays
                 ELSE /\ pc' = "sending"
                      /\ delays' = Append(delays,
                            [delay |-> sleep(NoResponse, history_len + 1),
                             by_header |-> FALSE])
                      /\ UNCHANGED outcome

\* One attempt that is answered: urlopen asks is_retry, and either hands the
\* response back or calls increment(response=...) and sleep(response)
SendResponse(resp) ==
  /\ pc = "sending"
  /\ attempts' = attempts + 1
  /\ first' = IF first = NoFirst
                THEN [kind |-> "response", status |-> resp.status,
                      retry_after |-> resp.retry_after]
                ELSE first
  /\ all_forced' = (all_forced /\ resp.status \in status_forcelist)
  /\ all_failed' = FALSE
  /\ UNCHANGED <<max_retries, method>>
  /\ IF is_retry(method, resp.status, resp.retry_after # NoHeader, total)
       THEN /\ total' = total - 1
            /\ history_len' = history_len + 1
            /\ IF is_exhausted(total - 1)
                 THEN /\ pc' = "done"
                      /\ response' = resp
                      /\ UNCHANGED delays
                      /\ IF raise_on_status
                           THEN \* MaxRetryError(ResponseError) leaves urlopen
                                /\ pc' = "done"
                                /\ outcome' = MaxRetryErrorAs("status")
                           ELSE /\ pc' = "responded"
                                /\ UNCHANGED outcome
                 ELSE /\ pc' = "sending"
                      /\ delays' = Append(delays,
                            [delay |-> sleep(resp, history_len + 1),
                             by_header |-> sleep_for_retry(resp)])
                      /\ UNCHANGED <<outcome, response>>
       ELSE /\ pc' = "responded"
            /\ response' = resp
            /\ UNCHANGED <<total, history_len, delays, outcome>>

\* The rest of _request once session.request has returned a response
Classify ==
  /\ pc = "responded"
  /\ pc' = "done"
  /\ outcome' = IF response.status >= 400
                  THEN Classify4xx(response)
                  ELSE ReturnBody(response)
  /\ UNCHANGED <<max_retries, method, total, history_len, attempts, delays,
                 response, first, all_forced, all_failed>>

\* ========================================================================
\* Entity codec
\* ========================================================================

\* Items of a list endpoint's page that the model decodes
MaxPage == 2

\* class OrderStatus(str, Enum)
OrderStatusValues ==
  {"pending", "paid", "processing", "shipped", "delivered", "cancelled", "refunded"}

\* Raw JSON values are tagged with their Python type: t is "str", "dict",
\* "list" or "absent" (the key is missing), and after from_dict has stored a
\* typed object in the mapping, the object's class.
AbsentStr  == [t |-> "absent", v |-> ""]
AbsentList == [t |-> "absent", v |-> <<>>]

RawStatuses ==
  { [t |-> "str", v |-> x] : x \in OrderStatusValues \cup {"archived", "PAID", ""} }
    \cup {AbsentStr}

\* "incomplete" lacks a required field of the dataclass
RawAddresses == { [t |-> "dict", v |-> x] : x \in {"addr-1", "incomplete"} }

RawItemLists ==
  { [t |-> "list", v |-> l] :
      l \in { <<>>, <<[t |-> "dict", v |-> "item-1"]>>,
              <<[t |-> "dict", v |-> "item-1"], [t |-> "dict", v |-> "incomplete"]>> } }

RawVariantLists ==
  { [t |-> "list", v |-> l] :
      l \in { <<>>, <<[t |-> "dict", v |-> "variant-1"]>>,
              <<[t |-> "dict", v |-> "variant-1"], [t |-> "dict", v |-> "variant-2"]>>,
              <<[t |-> "dict", v |-> "incomplete"]>> } }
    \cup {AbsentList}

RawOrders ==
  { [type |-> "order", status |-> st, shipping_address |-> a,
     billing_address |-> [t |-> "dict", v |-> "addr-1"], items |-> its,
     variants |-> AbsentList] :
      st \in RawStatuses, a \in RawAddresses, its \in RawItemLists }

RawProducts ==
  { [type |-> "product", status |-> [t |-> "str", v |-> x],
     shipping_address |-> AbsentStr, billing_address |-> AbsentStr,
     items |-> AbsentList, variants |-> vs] :
      x \in {"active"}, vs \in RawVariantLists }

\* The orders a list endpoint's page is drawn from: every status, one
\* well-formed address and item
PageOrders ==
  { o \in RawOrders :
      /\ o.shipping_address.v = "addr-1"
      /\ o.items.v = <<[t |-> "dict", v |-> "item-1"]>> }

\* Typed entities and the exceptions decoding raises
Entity(kind, st, ship, bill, its, vs) ==
  [kind |-> kind, status |-> st, shipping_address |-> ship,
   billing_address |-> bill, items |-> its, variants |-> vs]

DecodeError(kind) == Entity(kind, "", "", "", <<>>, <<>>)

DecodeErrors == {"KeyError", "ValueError", "TypeError"}

OrderStatus_or_pending(x) ==
  IF x.t = "OrderStatus" \/ (x.t = "str" /\ x.v \in OrderStatusValues)
    THEN x.v ELSE "pending"

\* OrderStatus(value): the member with that value, or ValueError.  A member
\* is its own value.
OrderStatus(x) ==
  IF x.t = "OrderStatus" \/ (x.t = "str" /\ x.v \in OrderStatusValues)
    THEN x.v ELSE "ValueError"

\* Address(**x), OrderItem(**x), ProductVariant(**x): x must be a mapping
\* that holds the dataclass's required fields
Constructs(x) == x.t = "dict" /\ x.v # "incomplete"

Values(l) == [i \in 1..Len(l) |-> l[i].v]

\* Order.from_dict(d): the mapping as it is left, and the Order or the error
OrderFromDict(d) ==
  IF d.status.t = "absent" THEN [data |-> d, entity |-> DecodeError("KeyError")]
  ELSE IF OrderStatus(d.status) = "ValueError"
    THEN [data |-> d, entity |-> DecodeError("ValueError")]
  ELSE
    LET d1 == [d EXCEPT !.status = [t |-> "OrderStatus", v |-> OrderStatus(d.status)]]
    IN
    IF ~Constructs(d1.shipping_address)
      THEN [data |-> d1, entity |-> DecodeError("TypeError")]
    ELSE
      LET d2 == [d1 EXCEPT !.shipping_address = [t |-> "Address", v |-> @.v]]
      IN
      IF ~Constructs(d2.billing_address)
        THEN [data |-> d2, entity |-> DecodeError("TypeError")]
      ELSE
        LET d3 == [d2 EXCEPT !.billing_address = [t |-> "Address", v |-> @.v]]
        IN
        IF d3.items.t # "list" \/ \E i \in 1..Len(d3.items.v) : ~Constructs(d3.items.v[i])
          THEN [data |-> d3, entity |-> DecodeError("TypeError")]
        ELSE
          LET d4 == [d3 EXCEPT !.items.v =
                        [i \in 1..Len(@) |-> [t |-> "OrderItem", v |-> @[i].v]]]
          IN [data |-> d4,
              entity |-> Entity("Order", d4.status.v, d4.shipping_address.v,
                                d4.billing_address.v, Values(d4.items.v), <<>>)]

\* Product.from_dict(d): data.pop("variants", []) comes first
ProductFromDict(d) ==
  LET popped == IF d.variants.t = "absent" THEN <<>> ELSE d.variants.v
      d1 == [d EXCEPT !.variants = AbsentList]
  IN IF \E i \in 1..Len(popped) : ~Constructs(popped[i])
       THEN [data |-> d1, entity |-> DecodeError("TypeError")]
       ELSE [data |-> d1,
             entity |-> Entity("Product", d1.status.v, "", "", <<>>, Values(popped))]

FromDict(d) == IF d.type = "order" THEN OrderFromDict(d) ELSE ProductFromDict(d)

\* [from_dict(d) for d in ds]: the mappings are decoded in order and the
\* first error ends the comprehension, leaving the later ones untouched
RECURSIVE DecodeAll(_)
DecodeAll(ds) ==
  IF ds = <<>> THEN [data |-> <<>>, kind |-> "ok", entities |-> <<>>]
  ELSE LET head == FromDict(ds[1])
       IN IF head.entity.kind \in DecodeErrors
            THEN [data |-> <<head.data>> \o Tail(ds), kind |-> head.entity.kind,
                  entities |-> <<>>]
            ELSE LET rest == DecodeAll(Tail(ds))
                 IN [data |-> <<head.data>> \o rest.data, kind |-> rest.kind,
                     entities |-> IF rest.kind = "ok"
                                    THEN <<head.entity>> \o rest.entities
                                    ELSE <<>>]

NoResult == [kind |-> "none", entities |-> <<>>]

CodecIdle ==
  /\ via = "none"
  /\ received = <<>>
  /\ data = <<>>
  /\ result = NoResult
  /\ previous = NoResult

\* A router operation hands what _request returned to from_dict:
\* `return Entity.from_dict(result)`, or for a list endpoint
\* `PaginatedList(items=[Entity.from_dict(x) for x in result["items"]], ...)`.
\* result.entities is the entity, or the items of the PaginatedList.
Decode(caller, raws) ==
  LET r == DecodeAll(raws)
  IN /\ via = "none"
     /\ via' = caller
     /\ received' = raws
     /\ data' = r.data
     /\ result' = [kind |-> r.kind, entities |-> r.entities]
     /\ previous' = NoResult

Pages(S) == UNION { [1..n -> S] : n \in 0..MaxPage }

OrdersGet == \E raw \in RawOrders : Decode("orders.get", <<raw>>)

OrdersList == \E raws \in Pages(PageOrders) : Decode("orders.list", raws)

OrdersUpdateStatus == \E raw \in RawOrders : Decode("orders.update_status", <<raw>>)

OrdersCancel == \E raw \in RawOrders : Decode("orders.cancel", <<raw>>)

OrdersRefund == \E raw \in RawOrders : Decode("orders.refund", <<raw>>)

ProductsGet == \E raw \in RawProducts : Decode("products.get", <<raw>>)

ProductsList == \E raws \in Pages(RawProducts) : Decode("products.list", raws)

\* The caller hands the mappings it still holds to from_dict once more
FromDictAgain ==
  /\ via # "none"
  /\ previous = NoResult
  /\ LET r == DecodeAll(data)
     IN /\ data' = r.data
        /\ result' = [kind |-> r.kind, entities |-> r.entities]
        /\ previous' = result
  /\ UNCHANGED <<via, received>>

\* The caller drops the mappings and the result
Discard ==
  /\ via # "none"
  /\ via' = "none"
  /\ received' = <<>>
  /\ data' = <<>>
  /\ result' = NoResult
  /\ previous' = NoResult

\* ========================================================================
\* Resource routers: request assembly
\* ========================================================================

\* Python values, tagged with their type; v is the value's text
Py(t, v) == [t |-> t, v |-> v]

PyNone == Py("None", "")

\* bool(x) of `if x:`
Truthy(x) ==
  ~ \/ x.t = "None"
    \/ x.t = "str" /\ x.v = ""
    \/ x.t \in {"int", "float"} /\ x.v \in {"0", "0.0"}
    \/ x.t = "list" /\ x.v = "[]"
    \/ x.t = "dict" /\ x.v = "{}"
    \/ x.t = "bool" /\ x.v = "False"

\* `a or b`
Or(a, b) == IF Truthy(a) THEN a ELSE b

EmptyDict == [k \in {} |-> PyNone]

\* d[k] = v
Set(d, k, v) == [x \in DOMAIN d \cup {k} |-> IF x = k THEN v ELSE d[x]]

\* `if v: d[k] = v`
SetIfTruthy(d, k, v) == IF Truthy(v) THEN Set(d, k, v) ELSE d

\* `if v is not None: d[k] = v`
SetIfNotNone(d, k, v) == IF v # PyNone THEN Set(d, k, v) ELSE d

Req(m, path, params, json) ==
  [method |-> m, path |-> path, params |-> params, json |-> json]

NoRequest == Req("", "", EmptyDict, EmptyDict)

\* Argument values the caller supplies
OptStr(x) == {PyNone, Py("str", ""), Py("str", x)}

RouterIdle ==
  /\ op = "none"
  /\ args = EmptyDict
  /\ request = NoRequest

\* ProductsAPI.list(page, limit, category_id, status, search)
ProductsListRequest(page, limit, category_id, status, search) ==
  /\ op' = "products.list"
  /\ args' = [category_id |-> category_id, status |-> status, search |-> search]
  /\ request' =
       Req("GET", "/products",
           SetIfTruthy(
             SetIfTruthy(
               SetIfTruthy([page |-> page, limit |-> limit],
                           "category_id", category_id),
               "status", status),
             "search", search),
           EmptyDict)

\* ProductsAPI.create(..., images, inventory, compare_at_price, attributes)
ProductsCreateRequest(images, compare_at_price, attributes) ==
  /\ op' = "products.create"
  /\ args' = [images |-> images, compare_at_price |-> compare_at_price,
              attributes |-> attributes]
  /\ request' =
       Req("POST", "/products", EmptyDict,
           SetIfTruthy(
             SetIfTruthy(
               [sku |-> Py("str", "A1"), name |-> Py("str", "Shoe"),
                description |-> Py("str", "A shoe"), price |-> Py("float", "9.99"),
                category_id |-> Py("str", "shoes"),
                images |-> Or(images, Py("list", "[]")),
                inventory |-> Py("int", "0")],
               "compare_at_price", compare_at_price),
             "attributes", attributes))

\* OrdersAPI.list(page, limit, status, since)
OrdersListRequest(status, since) ==
  /\ op' = "orders.list"
  /\ args' = [status |-> status, since |-> since]
  /\ request' =
       Req("GET", "/orders",
           SetIfTruthy(
             SetIfTruthy([page |-> Py("int", "1"), limit |-> Py("int", "20")],
                         "status", status),
             "since", since),
           EmptyDict)

\* OrdersAPI.cancel(order_id, reason)
OrdersCancelRequest(reason) ==
  /\ op' = "orders.cancel"
  /\ args' = [reason |-> reason]
  /\ request' = Req("POST", "/orders/{id}/cancel", EmptyDict, [reason |-> reason])

\* OrdersAPI.refund(order_id, amount, reason)
OrdersRefundRequest(amount, reason) ==
  /\ op' = "orders.refund"
  /\ args' = [amount |-> amount, reason |-> reason]
  /\ request' = Req("POST", "/orders/{id}/refund", EmptyDict,
                    [amount |-> amount, reason |-> reason])

\* WebhooksAPI.update(webhook_id, url, events, active)
WebhooksUpdateRequest(url, events, active) ==
  /\ op' = "webhooks.update"
  /\ args' = [url |-> url, events |-> events, active |-> active]
  /\ request' =
       Req("PATCH", "/webhooks/{id}", EmptyDict,
           SetIfNotNone(
             SetIfTruthy(SetIfTruthy(EmptyDict, "url", url), "events", events),
             "active", active))

\* ========================================================================
\* Signature verifier
\* ========================================================================

\* Width of the stand-in digest, in bytes (SHA-256 has 32)
DigestBytes == 2

EncodeError == <<-1>>

\* str.encode(): UTF-8, which refuses lone surrogates
RECURSIVE Encode(_)
Encode(str) ==
  IF str = <<>> THEN <<>>
  ELSE LET c == Head(str)
           rest == Encode(Tail(str))
       IN IF rest = EncodeError \/ (c >= 55296 /\ c <= 57343) THEN EncodeError
          ELSE IF c < 128 THEN <<c>> \o rest
          ELSE IF c < 2048 THEN <<192 + (c \div 64), 128 + (c % 64)>> \o rest
          ELSE <<224 + (c \div 4096), 128 + ((c \div 64) % 64), 128 + (c % 64)>> \o rest

\* One byte of a keyed hash of `bytes`, mixing with multiplier m
RECURSIVE Mix(_, _, _)
Mix(bytes, acc, m) ==
  IF bytes = <<>> THEN acc
  ELSE Mix(Tail(bytes), (acc * m + Head(bytes) + 1) % 256, m)

\* hmac.new(key, msg, hashlib.sha256).digest(): a keyed hash of fixed width.
\* SHA-256 itself is replaced by a DigestBytes-wide mixing function.
HmacDigest(key, msg) ==
  [i \in 1..DigestBytes |-> Mix(key \o <<255>> \o msg \o key, 16 + i, 29 + 2 * i)]

HexDigit(n) == IF n < 10 THEN 48 + n ELSE 87 + n

\* .hexdigest(): two lowercase hexadecimal digits per byte
RECURSIVE HexDigest(_)
HexDigest(bytes) ==
  IF bytes = <<>> THEN <<>>
  ELSE <<HexDigit(Head(bytes) \div 16), HexDigit(Head(bytes) % 16)>>
         \o HexDigest(Tail(bytes))

IsAscii(str) == \A i \in 1..Len(str) : str[i] < 128

\* hmac.compare_digest(a, b) on two str: non-ASCII text is a TypeError
compare_digest(a, b) ==
  IF ~IsAscii(a) \/ ~IsAscii(b) THEN "TypeError"
  ELSE IF a = b THEN "True" ELSE "False"

\* WebhooksAPI.verify_signature(payload, signature, secret)
verify_signature(p, sig, sec) ==
  IF Encode(sec) = EncodeError \/ Encode(p) = EncodeError
    THEN "UnicodeEncodeError"
    ELSE compare_digest(sig, HexDigest(HmacDigest(Encode(sec), Encode(p))))

\* Inputs: "", "{}", "{a}", "é", a lone surrogate
Payloads == { <<>>, <<123, 125>>, <<123, 97, 125>>, <<233>>, <<55357>> }

\* "s", "key", "", "é"
Secrets == { <<115>>, <<107, 101, 121>>, <<>>, <<233>> }

Upper(str) == [i \in 1..Len(str) |-> IF str[i] >= 97 THEN str[i] - 32 ELSE str[i]]

\* Well-formed signatures of the inputs above, and malformed ones: upper
\* case, truncated, empty, not hexadecimal, not ASCII
Signatures ==
  LET good == { HexDigest(HmacDigest(Encode(sec), Encode(p))) :
                  sec \in Secrets, p \in Payloads \ {<<55357>>} }
  IN good
       \cup { Upper(g) : g \in good }
       \cup { SubSeq(g, 1, Len(g) - 1) : g \in good }
       \cup { <<>>, <<122, 122, 122, 122>>, <<233, 233, 233, 233>>, <<8364>> }

VerifyIdle ==
  /\ payload = <<>>
  /\ signature = <<>>
  /\ secret = <<>>
  /\ verified = "none"

VerifySignature(p, sig, sec) ==
  /\ payload' = p
  /\ signature' = sig
  /\ secret' = sec
  /\ verified' = verify_signature(p, sig, sec)

vars == <<execVars, codecVars, routerVars, verifyVars>>

\* The request executor
Init == ExecInit /\ CodecIdle /\ RouterIdle /\ VerifyIdle

ExecFrame == UNCHANGED <<codecVars, routerVars, verifyVars>>

Next ==
  \/ \E m \in Methods : Request(m) /\ ExecFrame
  \/ \E err \in TransportErrors : SendError(err) /\ ExecFrame
  \/ \E resp \in Responses : SendResponse(resp) /\ ExecFrame
  \/ Classify /\ ExecFrame

Spec == Init /\ [][Next]_vars

\* The entity codec, the routers and the verifier belong to a client built
\* with the default max_retries
InitCodec == Init /\ max_retries = 3

CodecFrame == UNCHANGED <<execVars, routerVars, verifyVars>>

NextCodec ==
  \/ OrdersGet /\ CodecFrame
  \/ OrdersList /\ CodecFrame
  \/ OrdersUpdateStatus /\ CodecFrame
  \/ OrdersCancel /\ CodecFrame
  \/ OrdersRefund /\ CodecFrame
  \/ ProductsGet /\ CodecFrame
  \/ ProductsList /\ CodecFrame
  \/ FromDictAgain /\ CodecFrame
  \/ Discard /\ CodecFrame

SpecCodec == InitCodec /\ [][NextCodec]_vars

\* The resource routers
RouterFrame == UNCHANGED <<execVars, codecVars, verifyVars>>

NextRouter ==
  \/ \E page \in {Py("int", "1"), Py("int", "2")},
        limit \in {Py("int", "20"), Py("int", "50")},
        category_id \in OptStr("shoes"), status \in OptStr("active"),
        search \in OptStr("boot") :
          ProductsListRequest(page, limit, category_id, status, search) /\ RouterFrame
  \/ \E images \in {PyNone, Py("list", "[]"), Py("list", "[a.png]")},
        compare_at_price \in {PyNone, Py("float", "0.0"), Py("float", "19.99")},
        attributes \in {PyNone, Py("dict", "{}"), Py("dict", "{color: red}")} :
          ProductsCreateRequest(images, compare_at_price, attributes) /\ RouterFrame
  \/ \E status \in {PyNone, Py("str", "paid"), Py("str", "shipped")},
        since \in {PyNone, Py("str", "2024-01-01T00:00:00")} :
          OrdersListRequest(status, since) /\ RouterFrame
  \/ \E reason \in OptStr("damaged") : OrdersCancelRequest(reason) /\ RouterFrame
  \/ \E amount \in {PyNone, Py("float", "0.0"), Py("float", "5.0")},
        reason \in OptStr("damaged") :
          OrdersRefundRequest(amount, reason) /\ RouterFrame
  \/ \E url \in OptStr("https://example.com/hook"),
        events \in {PyNone, Py("list", "[]"), Py("list", "[order.paid]")},
        active \in {PyNone, Py("bool", "True"), Py("bool", "False")} :
          WebhooksUpdateRequest(url, events, active) /\ RouterFrame

SpecRouter == InitCodec /\ [][NextRouter]_vars

\* The signature verifier
VerifyFrame == UNCHANGED <<execVars, codecVars, routerVars>>

NextVerify ==
  \E p \in Payloads, sig \in Signatures, sec \in Secrets :
     VerifySignature(p, sig, sec) /\ VerifyFrame

SpecVerify == InitCodec /\ [][NextVerify]_vars

\* ========================================================================
\* Request executor: properties
\* ========================================================================

RetriedMethods == {"GET", "PUT", "DELETE"}

\* C1 as stated: when every attempt of a finished call was answered with a
\* forcelist status, exactly max_retries + 1 attempts were sent, whatever
\* the method.
C1_AnyMethod ==
  (pc = "done" /\ all_forced) => attempts = max_retries + 1

\* C1 amended: a call never sends more than max_retries + 1 attempts; when
\* every attempt was answered with a forcelist status, a GET, PUT or DELETE
\* call ends after exactly max_retries + 1 attempts and a POST or PATCH call
\* after exactly one.
C1_RetriedMethodsOnly ==
  /\ attempts <= max_retries + 1
  /\ (pc = "done" /\ all_forced) =>
        attempts = IF method \in RetriedMethods THEN max_retries + 1 ELSE 1

C1_Witness ==
  /\ pc = "done" /\ all_forced
  /\ method = "DELETE" /\ max_retries = 3 /\ attempts = 4

\* C2: when every attempt was answered with a forcelist status and the
\* retries are exhausted, _request raises the ShopAPIError the classifier
\* makes of the last response.
C2_TypedErrorAfterExhaustion ==
  (pc = "done" /\ all_forced /\ is_exhausted(total)) =>
     (outcome.kind = "ShopAPIError" /\ outcome = Classify4xx(response))

\* C3 as stated: a call whose first response has a status >= 400 outside the
\* forcelist sends one attempt, sleeps never, and raises ShopAPIError.
C3_OneAttempt ==
  (first.kind = "response" /\ first.status >= 400
     /\ first.status \notin status_forcelist) =>
        /\ attempts = 1
        /\ delays = <<>>
        /\ pc = "done" => outcome.kind = "ShopAPIError"

\* The one non-forcelist answer the Retry object does retry
RetryAfter413 ==
  /\ first.status = 413 /\ first.retry_after # NoHeader
  /\ method \in RetriedMethods /\ max_retries >= 1

\* C3 amended: unless the first response is a 413 with a Retry-After header
\* on a GET, PUT or DELETE call of a client with max_retries >= 1, a call
\* whose first response has a status >= 400 outside the forcelist sends one
\* attempt and never sleeps; it raises ShopAPIError when the body is a JSON
\* object or not JSON, and AttributeError when it is any other JSON value.
C3_OneAttemptUnlessRetryAfter413 ==
  (first.kind = "response" /\ first.status >= 400
     /\ first.status \notin status_forcelist /\ ~RetryAfter413) =>
        /\ attempts = 1
        /\ delays = <<>>
        /\ pc = "done" =>
             outcome.kind = IF response.body.json \in {"object", "invalid"}
                              THEN "ShopAPIError" ELSE "AttributeError"

C3_Witness ==
  /\ pc = "done" /\ method = "GET" /\ max_retries = 3
  /\ first.kind = "response" /\ first.status = 404
  /\ attempts = 1 /\ outcome.kind = "ShopAPIError"

\* C4 as stated: the first retry waits the base factor and every later
\* retry waits twice as long as the one before it.
C4_DoublingFromBase ==
  \A i \in 1..Len(delays) :
     delays[i].delay = IF i = 1 THEN backoff_factor
                                ELSE 2 * delays[i - 1].delay

\* C4 amended: nothing is slept before the first attempt and one sleep
\* precedes each retry; a retry of a response that carries a non-zero
\* Retry-After sleeps that long; otherwise the first retry is immediate and
\* the k-th retry (k >= 2) sleeps min(120 s, 0.5 s * 2^(k-1)): 1 s, 2 s,
\* 4 s, ... so that backoff delays grow strictly until they reach the cap.
C4_BackoffCurve ==
  /\ attempts = 0 => delays = <<>>
  /\ attempts > 0 =>
        Len(delays) = IF pc = "sending" THEN attempts ELSE attempts - 1
  /\ \A i \in 1..Len(delays) :
        IF delays[i].by_header
          THEN delays[i].delay \in RetryAfters /\ delays[i].delay > 0
          ELSE delays[i].delay = IF i = 1 THEN 0
                                 ELSE Min(120000, 1000 * Pow2(i - 2))
  /\ \A i \in 2..Len(delays) :
        (~delays[i].by_header /\ ~delays[i - 1].by_header) =>
           (delays[i - 1].delay < delays[i].delay \/ delays[i].delay = 120000)

C4_Witness ==
  /\ Len(delays) = 3
  /\ \A i \in 1..3 : ~delays[i].by_header
  /\ delays[1].delay = 0 /\ delays[2].delay = 1000 /\ delays[3].delay = 2000

\* C5: whenever the classifier is handed a response with status >= 400 it
\* raises ShopAPIError: from the envelope (code or "unknown", message or the
\* raw text, details) when the body is JSON, and ("http_error",
\* "HTTP <status>: <text>") when it is not.
C5_AlwaysShopAPIError ==
  (pc = "done" /\ ~is_exhausted(total)
     /\ response # NoResponse /\ response.status >= 400) =>
        outcome =
          IF response.body.json = "invalid"
            THEN ShopAPIError("http_error",
                   <<"HTTP ", ToString(response.status), ": ", response.body.text>>,
                   None)
            ELSE ShopAPIError(
                   Get(response.body.env, "code", "unknown"),
                   <<Get(response.body.env, "message", response.body.text)>>,
                   Get(response.body.env, "details", None))

C7_AbsentOptionalsOmitted ==
  \A k \in DOMAIN args :
     args[k] = PyNone =>
        /\ k \in DOMAIN request.params =>
             request.params[k] \notin {PyNone, Py("str", "")}
        /\ k \in DOMAIN request.json =>
             request.json[k] \notin {PyNone, Py("str", "")}

\* ========================================================================
\* Entity codec: properties
\* ========================================================================

OrderOps ==
  {"orders.get", "orders.list", "orders.update_status", "orders.cancel",
   "orders.refund"}

ClosedSet ==
  {"pending", "paid", "processing", "shipped", "delivered", "cancelled", "refunded"}

\* C8: through every operation that decodes orders, an Order is returned
\* only for a mapping whose status is one of the seven values, and it
\* carries that very status; when a mapping's status is anything else the
\* operation raises and returns no Order.
C8_ClosedStatusSet ==
  via \in OrderOps =>
     /\ result.kind = "ok" =>
          /\ Len(result.entities) = Len(received)
          /\ \A i \in 1..Len(received) :
               /\ result.entities[i].kind = "Order"
               /\ received[i].status.t = "str"
               /\ received[i].status.v \in ClosedSet
               /\ result.entities[i].status = received[i].status.v
     /\ (\E i \in 1..Len(received) :
            received[i].status.t # "str" \/ received[i].status.v \notin ClosedSet) =>
          /\ result.kind \in DecodeErrors
          /\ result.entities = <<>>

C8_Witness ==
  /\ via = "orders.list"
  /\ Len(received) = 2
  /\ received[1].status.v = "paid"
  /\ received[2].status.v = "archived"
  /\ result.kind = "ValueError"
  /\ result.entities = <<>>

\* C10: from_dict leaves the mapping it is given as it was, and decoding
\* the same mapping a second time gives the same result as the first time.
C10_DecodeLeavesInputUnchanged ==
  /\ via # "none" => data = received
  /\ previous # NoResult => result = previous

\* ========================================================================
\* Signature verifier: properties
\* ========================================================================

\* C9: verify_signature returns a boolean for every input and never raises,
\* and it returns True exactly when the signature is the lowercase
\* hexadecimal HMAC of the payload under the secret.
C9_BooleanNeverRaises ==
  verified # "none" =>
     /\ verified \in {"True", "False"}
     /\ verified = "True" <=>
          signature = HexDigest(HmacDigest(Encode(secret), Encode(payload)))

====
